---------------------------- MODULE Spec2Model ----------------------------
(***************************************************************************)
(* Model registry, model cache and multi-backend fallback dispatch of the  *)
(* CUBE Studio unified backend service (src/unified_backend_service.py).   *)
(*                                                                         *)
(* The registry is the ModelRegistry object: the descriptor table          *)
(* (self.models), the cache (self.model_cache, a dict in insertion order)  *)
(* and the cache statistics.  UnifiedProcessor.process_image is modelled   *)
(* as one atomic operation on that registry, the way the asyncio event     *)
(* loop of the service runs it.                                            *)
(***************************************************************************)
EXTENDS Integers, Sequences, FiniteSets, TLC

----------------------------------------------------------------------------
(* Bounds of the model                                                     *)

\* number of direct load_model calls in one behaviour of Spec
MaxLoads == 7
\* number of process_image calls in one behaviour of ProcSpec
MaxRequests == 2

----------------------------------------------------------------------------
(* Enumerations                                                            *)

AVAILABLE == "available"
LOADING   == "loading"
LOADED    == "loaded"
ERROR     == "error"
NOT_FOUND == "not_found"
ModelStatus == {AVAILABLE, LOADING, LOADED, ERROR, NOT_FOUND}

PYTORCH     == "pytorch"
OPENCV      == "opencv"
BUILTIN     == "builtin"
ONNX        == "onnx"
SAFETENSORS == "safetensors"
ProcessingBackend == {PYTORCH, OPENCV, BUILTIN, ONNX, SAFETENSORS}

\* Python's None (file_path, backend_preference, error_message, "no exception")
None == "None"
\* last_used = None; _evict_least_used reads it as datetime.min
Never == 0

----------------------------------------------------------------------------
(* The catalog of ModelRegistry._initialize_models, in the order in which  *)
(* the groups are merged into self.models                                  *)

MI(id, processor_type, backend, file_path, fallback_models) ==
    [id |-> id, processor_type |-> processor_type, backend |-> backend,
     file_path |-> file_path, fallback_models |-> fallback_models]

Catalog == <<
    MI("builtin_canny", "edge_detection", "builtin", None, <<>>),
    MI("opencv_canny", "edge_detection", "opencv", None, <<"builtin_canny">>),
    MI("network-bsds500", "edge_detection", "pytorch", "network-bsds500.pth", <<"opencv_canny", "builtin_canny">>),
    MI("table5_pidinet", "edge_detection", "pytorch", "table5_pidinet.pth", <<"opencv_canny", "builtin_canny">>),
    MI("builtin_depth", "depth_estimation", "builtin", None, <<>>),
    MI("dpt_hybrid", "depth_estimation", "pytorch", "dpt_hybrid-midas-501f0c75.pt", <<"builtin_depth">>),
    MI("midas_v21", "depth_estimation", "pytorch", "midas_v21_384.pt", <<"builtin_depth">>),
    MI("zoedepth", "depth_estimation", "pytorch", "ZoeD_M12_N.pt", <<"builtin_depth">>),
    MI("depth_anything", "depth_estimation", "pytorch", "depth_anything_vitl14.pth", <<"builtin_depth">>),
    MI("depth_anything_v2", "depth_estimation", "pytorch", "depth_anything_v2_vitl.pth", <<"depth_anything", "builtin_depth">>),
    MI("depth_leres", "depth_estimation", "pytorch", "res101.pth", <<"builtin_depth">>),
    MI("depth_leres_boost", "depth_estimation", "pytorch", "res101.pth", <<"depth_leres", "builtin_depth">>),
    MI("builtin_lineart", "lineart", "builtin", None, <<>>),
    MI("lineart_standard", "lineart", "opencv", None, <<"builtin_lineart">>),
    MI("lineart_realistic", "lineart", "pytorch", "sk_model.pth", <<"lineart_standard", "builtin_lineart">>),
    MI("lineart_coarse", "lineart", "pytorch", "sk_model2.pth", <<"lineart_standard", "builtin_lineart">>),
    MI("lineart_anime", "lineart", "pytorch", "netG.pth", <<"lineart_standard", "builtin_lineart">>),
    MI("lineart_anime_denoise", "lineart", "pytorch", "erika.pth", <<"lineart_anime", "lineart_standard", "builtin_lineart">>),
    MI("pidinet_softedge", "soft_edge", "pytorch", "table5_pidinet.pth", <<"opencv_canny", "builtin_canny">>),
    MI("pidinet_safe", "soft_edge", "pytorch", "table5_pidinet.pth", <<"pidinet_softedge", "opencv_canny", "builtin_canny">>),
    MI("hed_softedge", "soft_edge", "pytorch", "ControlNetHED.pth", <<"opencv_canny", "builtin_canny">>),
    MI("hed_safe", "soft_edge", "pytorch", "ControlNetHED.pth", <<"hed_softedge", "opencv_canny", "builtin_canny">>),
    MI("scribble_hed", "scribble", "pytorch", "ControlNetHED.pth", <<"opencv_canny", "builtin_canny">>),
    MI("scribble_pidinet", "scribble", "pytorch", "table5_pidinet.pth", <<"scribble_hed", "opencv_canny", "builtin_canny">>),
    MI("scribble_xdog", "scribble", "opencv", None, <<"builtin_canny">>),
    MI("mlsd", "mlsd", "pytorch", "mlsd_large_512_fp32.pth", <<"opencv_canny", "builtin_canny">>),
    MI("normal_bae", "normal_map", "pytorch", "scannet.pt", <<"builtin_depth">>),
    MI("normal_midas", "normal_map", "pytorch", "midas_v21_384.pt", <<"normal_bae", "builtin_depth">>),
    MI("seg_anime_face", "segmentation", "pytorch", "face_parsing.farl.lapa.main_ema_136500_jit191.pt", <<"builtin_depth">>),
    MI("seg_ofade20k", "segmentation", "pytorch", "oneformer_ade20k_dinat_large.pth", <<"builtin_depth">>),
    MI("seg_ofcoco", "segmentation", "pytorch", "oneformer_coco_dinat_large.pth", <<"seg_ofade20k", "builtin_depth">>),
    MI("seg_ufade20k", "segmentation", "pytorch", "upernet_global_small.pth", <<"builtin_depth">>),
    MI("openpose_full", "pose_estimation", "pytorch", "body_pose_model.pth", <<"builtin_depth">>),
    MI("openpose_face", "pose_estimation", "pytorch", "facenet.pth", <<"builtin_depth">>),
    MI("openpose_faceonly", "pose_estimation", "pytorch", "facenet.pth", <<"openpose_face", "builtin_depth">>),
    MI("openpose_hand", "pose_estimation", "pytorch", "hand_pose_model.pth", <<"builtin_depth">>),
    MI("dwpose", "pose_estimation", "onnx", "yolox_l.onnx", <<"openpose_full", "builtin_depth">>),
    MI("animal_openpose", "pose_estimation", "onnx", "rtmpose-m_simcc-ap10k_pt-aic-coco_210e-256x256-7a041aa1_20230206.onnx", <<"builtin_depth">>),
    MI("shuffle", "shuffle", "opencv", None, <<>>),
    MI("color", "color", "opencv", None, <<>>),
    MI("threshold", "threshold", "opencv", None, <<>>),
    MI("tile", "tile", "builtin", None, <<>>),
    MI("inpaint_global_harmonious", "inpaint", "pytorch", "big-lama.pt", <<"threshold">>),
    MI("inpaint_only", "inpaint", "opencv", None, <<>>),
    MI("inpaint_only+lama", "inpaint", "pytorch", "big-lama.pt", <<"inpaint_only">>),
    MI("clip_vision", "clip_vision", "safetensors", "clip_vision_model.safetensors", <<"color">>),
    MI("reference_only", "reference", "builtin", None, <<>>),
    MI("reference_adain", "reference", "builtin", None, <<"reference_only">>),
    MI("reference_adain+attn", "reference", "builtin", None, <<"reference_adain", "reference_only">>),
    MI("recolor_luminance", "recolor", "opencv", None, <<"color">>),
    MI("recolor_intensity", "recolor", "opencv", None, <<"recolor_luminance", "color">>),
    MI("revision_clipvision", "revision", "safetensors", "clip_vision_model.safetensors", <<"clip_vision", "color">>),
    MI("revision_ignore_prompt", "revision", "builtin", None, <<"revision_clipvision">>),
    MI("normal_dsine", "normal_map", "pytorch", "dsine.pt", <<"normal_bae", "builtin_depth">>),
    MI("teed", "edge_detection", "pytorch", "7_model.pth", <<"table5_pidinet", "opencv_canny", "builtin_canny">>),
    MI("manga_line", "lineart", "pytorch", "erika.pth", <<"lineart_anime", "lineart_standard", "builtin_lineart">>),
    MI("mobile_sam", "segmentation", "pytorch", "mobile_sam.pt", <<"seg_ofcoco", "builtin_depth">>),
    MI("sam", "segmentation", "pytorch", "sam_vit_h_4b8939.pth", <<"mobile_sam", "seg_ofcoco", "builtin_depth">>)
>>

ModelIds == {Catalog[i].id : i \in DOMAIN Catalog}

\* the static part of self.models[model_id]
Info == [m \in ModelIds |-> Catalog[CHOOSE i \in DOMAIN Catalog : Catalog[i].id = m]]

AllFiles == {Catalog[i].file_path : i \in DOMAIN Catalog} \ {None}

\* the model ids for which load_model constructs an architecture
KnownArchitecture ==
    {"dpt_hybrid", "midas_v21", "zoedepth",
     "network-bsds500", "hed_softedge", "hed_safe", "scribble_hed",
     "table5_pidinet", "pidinet_softedge", "pidinet_safe", "scribble_pidinet",
     "depth_anything", "depth_anything_v2",
     "depth_leres", "depth_leres_boost",
     "lineart_realistic", "lineart_coarse", "lineart_anime",
     "lineart_anime_denoise", "mlsd", "normal_bae", "normal_midas",
     "seg_anime_face", "seg_ofade20k", "seg_ufade20k", "seg_ofcoco"}

max_cache_size == 5

----------------------------------------------------------------------------
(* State                                                                   *)

VARIABLES
    models,               \* ModelRegistry.models: the mutable fields of each ModelInfo
    model_cache,          \* ModelRegistry.model_cache: dict in insertion order
    cache_stats,          \* ModelRegistry.cache_stats
    now,                  \* the last value datetime.datetime.now() returned
    heap,                 \* number of model objects constructed and handed out
    PYTORCH_AVAILABLE,    \* result of "import torch" at module load
    ONNX_INSTALLED,       \* whether "import onnxruntime" succeeds
    SAFETENSORS_INSTALLED,\* whether "import safetensors" succeeds
    disk,                 \* the files that exist under models/preprocessors
    nLoads,               \* number of direct load_model calls made
    knownLoads,           \* ... of which with an id known to the registry
    lastLoad,             \* the last direct load_model call and its result
    nRequests,            \* number of process_image calls made
    request,              \* the last UnifiedProcessRequest
    response,             \* what process_image did with it
    dispatch,             \* record of the dispatch attempts made for it
    injected,             \* whether something went wrong in it that the registry
                          \* does not decide (a pipeline, a load or the encoding raised)
    batch,                \* the last batch_process call and what it returned
    readout,              \* the last read of the registry and what it returned
    threads,              \* the load_model calls in progress, one per thread
    render                \* the last run of a pixel pipeline and the image it returned

vars == <<models, model_cache, cache_stats, now, heap, PYTORCH_AVAILABLE,
          ONNX_INSTALLED, SAFETENSORS_INSTALLED, disk, nLoads, knownLoads,
          lastLoad, nRequests, request, response, dispatch, injected,
          batch, readout, threads, render>>

env == <<PYTORCH_AVAILABLE, ONNX_INSTALLED, SAFETENSORS_INSTALLED, disk>>

\* The registry as one value: what load_model and process_image work on
Machine == [models |-> models, model_cache |-> model_cache,
            cache_stats |-> cache_stats, now |-> now, heap |-> heap]

\* The installations a behaviour can start from: torch installed but
\* neither onnxruntime nor safetensors, and the weight files of midas_v21
\* and of the pidinet models missing; or onnxruntime and safetensors
\* installed, but neither torch nor any weight file
Environments ==
    { [pytorch |-> TRUE,  onnx |-> FALSE, safetensors |-> FALSE,
       disk |-> AllFiles \ {"midas_v21_384.pt", "table5_pidinet.pth"}],
      [pytorch |-> FALSE, onnx |-> TRUE,  safetensors |-> TRUE, disk |-> {}] }

----------------------------------------------------------------------------
(* ModelRegistry                                                           *)

\* faulty variant of ProbeStatus: the backend is not looked at
ProbeStatusByFileOnly(m, files) ==
    IF Info[m].file_path # None /\ Info[m].file_path \in files THEN AVAILABLE
    ELSE NOT_FOUND

\* ModelRegistry._check_model_availability, for one descriptor
ProbeStatus(m, files) ==
    IF Info[m].backend \in {BUILTIN, OPENCV} THEN AVAILABLE
    ELSE IF Info[m].file_path # None /\ Info[m].file_path \in files THEN AVAILABLE
    ELSE NOT_FOUND

\* ModelRegistry._check_model_availability
_check_model_availability(mods, files) ==
    [m \in ModelIds |->
        LET st == ProbeStatus(m, files) IN
        [mods[m] EXCEPT !.status = st,
                        !.error_message = IF st = NOT_FOUND THEN "Model file not found"
                                          ELSE @]]

\* the dataclass defaults of ModelInfo
ModelInfoDefaults ==
    [status |-> AVAILABLE, last_used |-> Never, load_count |-> 0, error_message |-> None]

\* ModelRegistry.__init__
RegistryInit(files) ==
    [models      |-> _check_model_availability([m \in ModelIds |-> ModelInfoDefaults], files),
     model_cache |-> <<>>,
     cache_stats |-> [hits |-> 0, misses |-> 0, evictions |-> 0, total_loaded |-> 0]]

\* ModelRegistry.get_model_info
get_model_info(model_id) == IF model_id \in ModelIds THEN model_id ELSE None

CachedIds(S) == {S.model_cache[i].id : i \in DOMAIN S.model_cache}

\* self.model_cache[model_id]
CacheGet(S, model_id) ==
    S.model_cache[CHOOSE i \in DOMAIN S.model_cache : S.model_cache[i].id = model_id].handle

\* faulty variant of CachePut: the model is not stored
CachePutNever(cache, model_id, h) == cache

\* self.model_cache[model_id] = model: a new key goes last, an existing key keeps its place
CachePut(cache, model_id, h) ==
    IF \E i \in DOMAIN cache : cache[i].id = model_id
    THEN [i \in DOMAIN cache |-> IF cache[i].id = model_id THEN [id |-> model_id, handle |-> h]
                                 ELSE cache[i]]
    ELSE Append(cache, [id |-> model_id, handle |-> h])

\* del self.model_cache[model_id]
CacheDel(cache, model_id) == SelectSeq(cache, LAMBDA e : e.id # model_id)

\* the key of min() in _evict_least_used: "last_used or datetime.min"
LastUsedKey(S, i) == S.models[S.model_cache[i].id].last_used

\* faulty variant of LeastUsed: of the keys with the least last_used the
\* last one in iteration order
LeastUsedLast(S) ==
    S.model_cache[CHOOSE i \in DOMAIN S.model_cache :
        /\ \A j \in DOMAIN S.model_cache : LastUsedKey(S, i) <= LastUsedKey(S, j)
        /\ \A j \in DOMAIN S.model_cache : j > i => LastUsedKey(S, j) > LastUsedKey(S, i)].id

\* min(self.model_cache.keys(), key=...): min() returns the first minimal
\* key in iteration order
LeastUsed(S) ==
    S.model_cache[CHOOSE i \in DOMAIN S.model_cache :
        /\ \A j \in DOMAIN S.model_cache : LastUsedKey(S, i) <= LastUsedKey(S, j)
        /\ \A j \in 1..(i-1) : LastUsedKey(S, j) > LastUsedKey(S, i)].id

\* faulty variant of Evict: the descriptor keeps the status LOADED
EvictKeepsStatus(S, lru_model_id) ==
    [S EXCEPT !.model_cache = CacheDel(@, lru_model_id),
              !.cache_stats.evictions = @ + 1]

\* the statements of _evict_least_used after min()
Evict(S, lru_model_id) ==
    [S EXCEPT !.model_cache = CacheDel(@, lru_model_id),
              !.models[lru_model_id].status = AVAILABLE,
              !.cache_stats.evictions = @ + 1]

\* ModelRegistry._evict_least_used
_evict_least_used(S) ==
    IF S.model_cache = <<>> THEN S ELSE Evict(S, LeastUsed(S))

\* results of a call: it returns a handle or raises
Returned(S, h)       == [st |-> S, exc |-> None, msg |-> None, handle |-> h]

\* faulty variant of Raised: every failure is reported the same way
RaisedUniform(S, exc, msg) ==
    [st |-> S, exc |-> "RuntimeError", msg |-> "Failed to load model", handle |-> None]

Raised(S, exc, msg) == [st |-> S, exc |-> exc, msg |-> msg, handle |-> None]

\* what load_model returns: the object built from the weights file, or the
\* string f"{backend}_processor", a new string object at every evaluation;
\* ref is the identity of the object
ModelObject(n) == [kind |-> "model", ref |-> n, value |-> "module"]

\* faulty variant of Sentinel: the string does not name the backend
SentinelAnonymous(b, n) == [kind |-> "sentinel", ref |-> n, value |-> "processor"]

Sentinel(b, n) == [kind |-> "sentinel", ref |-> n, value |-> b]

\* faulty variant of NeedsEviction: evicts only once the cache is over its size
NeedsEvictionLate(S) == Len(S.model_cache) > max_cache_size

\* the cache-management step of load_model
NeedsEviction(S) == Len(S.model_cache) >= max_cache_size

\* faulty variant of LoadFailed: the descriptor is left in LOADING
LoadFailedLeavesLoading(S, model_id, msg) ==
    Raised([S EXCEPT !.models[model_id].status = LOADING],
           "RuntimeError", "Failed to load model")

\* the handler "except Exception as e" of load_model
LoadFailed(S, model_id, msg) ==
    Raised([S EXCEPT !.models[model_id].status = ERROR,
                     !.models[model_id].error_message = msg],
           "RuntimeError", "Failed to load model")

\* faulty variant of NotAvailable: a model in ERROR is loaded again
NotAvailableUnlessError(S, model_id) ==
    S.models[model_id].status \notin {AVAILABLE, ERROR}

\* line 872: if model_info.status != ModelStatus.AVAILABLE
NotAvailable(S, model_id) == S.models[model_id].status # AVAILABLE

\* ModelRegistry.load_model.  raises tells whether constructing the
\* architecture, torch.load or model.to(device) raises.
load_model(S, model_id, raises) ==
    IF get_model_info(model_id) = None
    THEN Raised(S, "ValueError", "not found in registry")
    ELSE IF model_id \in CachedIds(S)
    THEN LET t == S.now + 1 IN
         Returned([S EXCEPT !.cache_stats.hits = @ + 1,
                            !.now = t,
                            !.models[model_id].last_used = t,
                            !.models[model_id].load_count = @ + 1],
                  CacheGet(S, model_id))
    ELSE LET S1 == [S EXCEPT !.cache_stats.misses = @ + 1] IN
         IF Info[model_id].backend \in {BUILTIN, OPENCV}
         THEN LET t == S1.now + 1 IN
              Returned([S1 EXCEPT !.models[model_id].status = LOADED,
                                  !.now = t,
                                  !.models[model_id].last_used = t,
                                  !.models[model_id].load_count = @ + 1,
                                  !.heap = @ + 1],
                       Sentinel(Info[model_id].backend, S1.heap + 1))
         ELSE IF ~PYTORCH_AVAILABLE
         THEN Raised(S1, "RuntimeError", "PyTorch not available for model loading")
         ELSE IF NotAvailable(S1, model_id)
         THEN Raised(S1, "FileNotFoundError", "is not available")
         ELSE IF model_id \notin KnownArchitecture
         THEN LoadFailed(S1, model_id, "Unknown model architecture")
         ELSE IF raises
         THEN LoadFailed(S1, model_id, "load error")
         ELSE LET S2 == IF NeedsEviction(S1) THEN _evict_least_used(S1) ELSE S1
                  model == ModelObject(S2.heap + 1)
                  t == S2.now + 1
              IN Returned([S2 EXCEPT !.heap = @ + 1,
                                     !.model_cache = CachePut(@, model_id, model),
                                     !.models[model_id].status = LOADED,
                                     !.now = t,
                                     !.models[model_id].last_used = t,
                                     !.models[model_id].load_count = @ + 1,
                                     !.cache_stats.total_loaded = @ + 1],
                          model)

----------------------------------------------------------------------------
(* Direct use of the registry: a sequence of load_model calls              *)

NoCall == [model_id |-> None, exc |-> None, msg |-> None, handle |-> None]

\* Six native models that load_model can load: one more than the cache holds
NativePool == <<"dpt_hybrid", "zoedepth", "network-bsds500", "hed_softedge",
                "mlsd", "normal_bae">>

\* The ids the loads are drawn from: the pool, midas_v21 (its weights are
\* missing), a builtin and a cpu-vision model, a native model
\* without architecture, and an id the registry does not know
LoadIds == {NativePool[i] : i \in DOMAIN NativePool}
             \cup {"midas_v21", "builtin_depth", "opencv_canny", "openpose_full",
                   "unknown_model"}

\* a pool id no load has touched yet, a load in progress included
Untouched(model_id) ==
    /\ models[model_id].last_used = Never
    /\ models[model_id].status # ERROR
    /\ \A t \in DOMAIN threads : threads[t].model_id # model_id

\* The pool is used in order: a pool id is asked for the first time only
\* after the pool ids before it (the pool ids are interchangeable for
\* load_model, so the order in which they first appear makes no difference)
InPoolOrder(model_id) ==
    \A i, j \in DOMAIN NativePool :
        (i < j /\ NativePool[j] = model_id /\ Untouched(model_id))
            => ~Untouched(NativePool[i])

SetMachine(S) ==
    /\ models' = S.models
    /\ model_cache' = S.model_cache
    /\ cache_stats' = S.cache_stats
    /\ now' = S.now
    /\ heap' = S.heap

Load(model_id, raises) ==
    /\ nLoads < MaxLoads
    /\ InPoolOrder(model_id)
    /\ LET out == load_model(Machine, model_id, raises) IN
       /\ SetMachine(out.st)
       /\ lastLoad' = [model_id |-> model_id, exc |-> out.exc, msg |-> out.msg,
                       handle |-> out.handle]
    /\ nLoads' = nLoads + 1
    /\ knownLoads' = IF model_id \in ModelIds THEN knownLoads + 1 ELSE knownLoads
    /\ UNCHANGED <<env, nRequests, request, response, dispatch, injected,
                   batch, readout, threads, render>>

\* The clock has not advanced since it was last read: the next
\* datetime.datetime.now() returns what the last one returned
SameInstant(S) == [S EXCEPT !.now = @ - 1]

\* a load_model call made so soon after the last clock reading that its own
\* reading gives the same timestamp
LoadSameInstant(model_id) ==
    /\ nLoads < MaxLoads
    /\ now > 0
    /\ InPoolOrder(model_id)
    /\ LET out == load_model(SameInstant(Machine), model_id, FALSE) IN
       /\ SetMachine(out.st)
       /\ lastLoad' = [model_id |-> model_id, exc |-> out.exc, msg |-> out.msg,
                       handle |-> out.handle]
    /\ nLoads' = nLoads + 1
    /\ knownLoads' = IF model_id \in ModelIds THEN knownLoads + 1 ELSE knownLoads
    /\ UNCHANGED <<env, nRequests, request, response, dispatch, injected,
                   batch, readout, threads, render>>

----------------------------------------------------------------------------
(* UnifiedProcessor: the backend dispatcher                                *)

\* What can go wrong in one dispatch attempt besides what the registry
\* decides: nothing, the model cannot be constructed or deserialized, or the
\* pixel pipeline raises on this image
FaultKinds == {"none", "load", "pipe"}

\* a dispatch attempt returns an image or raises; ran is the backend whose
\* pipeline produced the image, masked tells that the pipeline swallowed
\* an exception of its own and returned a substitute image
Done(S, ran, masked) == [st |-> S, exc |-> None, msg |-> None, ran |-> ran, masked |-> masked]
Fail(S, exc, msg)    == [st |-> S, exc |-> exc, msg |-> msg, ran |-> None, masked |-> FALSE]

\* the processor types _process_opencv has a pipeline for
OpencvTypes == {"edge_detection", "depth_estimation", "lineart", "soft_edge",
                "scribble", "mlsd", "normal_map", "color", "shuffle",
                "threshold", "inpaint", "recolor"}

\* the processor types _process_pytorch has a pipeline for
PytorchTypes == {"depth_estimation", "edge_detection", "lineart", "soft_edge",
                 "scribble", "mlsd", "normal_map", "segmentation",
                 "pose_estimation", "inpaint", "clip_vision"}

\* the processor types for which _process_builtin returns the image as it is
BuiltinIdentityTypes == {"tile", "reference", "revision"}

\* UnifiedProcessor._process_opencv
_process_opencv(S, m, fault) ==
    IF Info[m].processor_type \notin OpencvTypes
    THEN Fail(S, "ValueError", "OpenCV backend doesn't support")
    ELSE IF fault = "pipe" THEN Fail(S, "Exception", "pipeline error")
    ELSE Done(S, OPENCV, FALSE)

\* UnifiedProcessor._process_builtin: every processor type has a branch
_process_builtin(S, m, fault) ==
    IF Info[m].processor_type \notin BuiltinIdentityTypes /\ fault = "pipe"
    THEN Fail(S, "Exception", "pipeline error")
    ELSE Done(S, BUILTIN, FALSE)

\* UnifiedProcessor._process_pytorch and the _pytorch_* pipelines.  Every
\* pipeline starts with next(model.parameters()), which raises on the
\* sentinel string load_model returns for builtin and cpu-vision models;
\* the pose, inpaint and clip pipelines catch what they raise.
PytorchPipeline(S, pt, broken, fault) ==
    IF pt \notin PytorchTypes
    THEN Fail(S, "ValueError", "Unsupported processor type")
    ELSE IF pt = "pose_estimation" THEN Done(S, PYTORCH, broken)
    ELSE IF pt = "clip_vision" THEN Done(S, PYTORCH, broken)
    ELSE IF pt = "inpaint"
    THEN IF ~broken THEN Done(S, PYTORCH, FALSE)
         ELSE IF fault = "pipe" THEN Fail(S, "Exception", "pipeline error")
         ELSE Done(S, OPENCV, TRUE)
    ELSE IF broken
    THEN Fail(S, IF fault = "pipe" THEN "Exception" ELSE "AttributeError",
              "pipeline error")
    ELSE Done(S, PYTORCH, FALSE)

\* the statements of _process_pytorch after "model = load_model(...)"
AfterLoad(ld, m, fault) ==
    IF ld.exc # None THEN Fail(ld.st, ld.exc, ld.msg)
    ELSE PytorchPipeline(ld.st, Info[m].processor_type,
                         ld.handle.kind = "sentinel" \/ fault = "pipe", fault)

_process_pytorch(S, m, fault) ==
    IF ~PYTORCH_AVAILABLE THEN Fail(S, "RuntimeError", "PyTorch not available")
    ELSE AfterLoad(load_model(S, m, fault = "load"), m, fault)

\* UnifiedProcessor._process_onnx and _onnx_pose_processing
_process_onnx(S, m, fault) ==
    IF ~ONNX_INSTALLED THEN _process_opencv(S, m, fault)
    ELSE IF Info[m].processor_type = "pose_estimation"
    THEN IF fault = "pipe" THEN Fail(S, "Exception", "pipeline error")
         ELSE Done(S, ONNX, FALSE)
    ELSE _process_opencv(S, m, fault)

\* UnifiedProcessor._process_safetensors and the _safetensors_* pipelines
_process_safetensors(S, m, fault) ==
    IF ~SAFETENSORS_INSTALLED THEN _process_pytorch(S, m, fault)
    ELSE IF Info[m].processor_type = "clip_vision"
    THEN IF fault = "pipe" THEN Fail(S, "Exception", "pipeline error")
         ELSE Done(S, SAFETENSORS, FALSE)
    ELSE IF Info[m].processor_type = "revision" THEN Done(S, SAFETENSORS, FALSE)
    ELSE _process_pytorch(S, m, fault)

\* UnifiedProcessor._process_with_backend
_process_with_backend(S, m, backend, fault) ==
    CASE backend = PYTORCH     -> _process_pytorch(S, m, fault)
      [] backend = OPENCV      -> _process_opencv(S, m, fault)
      [] backend = BUILTIN     -> _process_builtin(S, m, fault)
      [] backend = ONNX        -> _process_onnx(S, m, fault)
      [] backend = SAFETENSORS -> _process_safetensors(S, m, fault)
      [] OTHER                 -> Fail(S, "ValueError", "Unsupported backend")

----------------------------------------------------------------------------
(* UnifiedProcessor: the fallback chain                                    *)

ALL_FALLBACKS_FAILED == "All fallback options failed"

\* one entry of the record of a walk: the candidate, the status the walk
\* saw, and what became of the attempt if one was made
Visit(fid, status, attempted, exc) ==
    [id |-> fid, status |-> status, attempted |-> attempted,
     backend |-> IF attempted THEN Info[fid].backend ELSE None,
     exc |-> exc]

\* faulty variant of Skips: only unknown candidates are passed over
SkipsOnlyMissing(S, fallback_id) == get_model_info(fallback_id) = None

\* whether the loop of _process_with_fallback passes over a candidate
Skips(S, fallback_id) ==
    get_model_info(fallback_id) = None \/ S.models[fallback_id].status # AVAILABLE

\* faulty variant of Exhausted: the loop ends without a raise, the function
\* returns None and the caller fails to unpack it
ExhaustedReturnsNone(S, walk) ==
    [st |-> S, exc |-> "TypeError", msg |-> "cannot unpack non-iterable NoneType object",
     backend |-> None, ran |-> None, masked |-> FALSE, producer |-> None,
     walk |-> walk]

\* the statement after the loop: raise RuntimeError("All fallback options failed")
Exhausted(S, walk) ==
    [st |-> S, exc |-> "RuntimeError", msg |-> ALL_FALLBACKS_FAILED,
     backend |-> None, ran |-> None, masked |-> FALSE, producer |-> None,
     walk |-> walk]

\* "return result, fallback_info.backend" after the attempt a with a candidate
FallbackReturns(a, fallback_id, w) ==
    [st |-> a.st, exc |-> None, msg |-> None,
     backend |-> Info[fallback_id].backend, ran |-> a.ran,
     masked |-> a.masked, producer |-> fallback_id, walk |-> w]

\* the loop of _process_with_fallback from the i-th entry of the chain on
RECURSIVE FallbackLoop(_, _, _, _, _)
\* the try statement of the loop: a is the attempt with the i-th entry
RECURSIVE FallbackTry(_, _, _, _, _, _)
FallbackTry(S, chain, i, faults, walk, a) ==
    IF a.exc = None
    THEN FallbackReturns(a, chain[i],
                         Append(walk, Visit(chain[i], S.models[chain[i]].status, TRUE, None)))
    ELSE FallbackLoop(a.st, chain, i + 1, faults,
                      Append(walk, Visit(chain[i], S.models[chain[i]].status, TRUE, a.exc)))

FallbackLoop(S, chain, i, faults, walk) ==
    IF i > Len(chain) THEN Exhausted(S, walk)
    ELSE IF Skips(S, chain[i])
    THEN FallbackLoop(S, chain, i + 1, faults,
             Append(walk, Visit(chain[i],
                                IF chain[i] \in ModelIds
                                THEN S.models[chain[i]].status ELSE None,
                                FALSE, None)))
    ELSE FallbackTry(S, chain, i, faults, walk,
                     _process_with_backend(S, chain[i], Info[chain[i]].backend,
                                           faults[i + 1]))

\* faulty variant of _process_with_fallback: when the chain is exhausted
\* the walk goes on with the chain of each candidate
_process_with_fallback_nested(S, m, faults) ==
    LET own == Info[m].fallback_models
        RECURSIVE Chains(_)
        Chains(i) == IF i > Len(own) THEN <<>>
                     ELSE (IF own[i] \in ModelIds
                           THEN Info[own[i]].fallback_models ELSE <<>>) \o Chains(i + 1)
        all == own \o Chains(1)
    IN  FallbackLoop(S, all, 1,
                     [j \in 1..(Len(all) + 1) |->
                         IF j \in DOMAIN faults THEN faults[j] ELSE "none"],
                     <<>>)

\* UnifiedProcessor._process_with_fallback.  faults[i + 1] is what goes
\* wrong in the attempt with the i-th entry of the chain.
_process_with_fallback(S, m, faults) ==
    FallbackLoop(S, Info[m].fallback_models, 1, faults, <<>>)

----------------------------------------------------------------------------
(* UnifiedProcessor.process_image                                          *)

NoRequest  == [model_id |-> None, image |-> None, backend_preference |-> None,
               fallback_enabled |-> FALSE]
NoResponse == [outcome |-> None, exc |-> None, success |-> FALSE,
               processed_image |-> None, model_used |-> None, backend_used |-> None,
               fallback_used |-> FALSE, error |-> None]
NoAttempt  == [backend |-> None, exc |-> None, msg |-> None]
NoDispatch == [primary |-> NoAttempt, walked |-> FALSE, walk |-> <<>>,
               ran |-> None, masked |-> FALSE, producer |-> None]

\* the function returns a UnifiedProcessResponse
Response(success, model_used, backend_used, fallback_used, error) ==
    [outcome |-> "response", exc |-> None, success |-> success,
     processed_image |-> IF success THEN "png" ELSE None,
     model_used |-> model_used, backend_used |-> backend_used,
     fallback_used |-> fallback_used, error |-> error]

\* an exception leaves the function
Propagates(exc) == [NoResponse EXCEPT !.outcome = "raised", !.exc = exc]

\* faulty variant of Handler: the failure response reports the state of the
\* walk, fallback_used = true with the backend of the last candidate
HandlerReportsWalk(bound, request_model_id, backend_used, fallback_used, msg) ==
    IF ~bound THEN Propagates("UnboundLocalError")
    ELSE Response(FALSE, request_model_id,
                  IF msg = ALL_FALLBACKS_FAILED THEN BUILTIN ELSE backend_used,
                  fallback_used \/ msg = ALL_FALLBACKS_FAILED, msg)

\* The handler "except Exception as e" of process_image.  bound tells
\* whether the locals backend_used and fallback_used have been assigned:
\* reading backend_used before raises UnboundLocalError out of the handler.
Handler(bound, request_model_id, backend_used, fallback_used, msg) ==
    IF ~bound THEN Propagates("UnboundLocalError")
    ELSE Response(FALSE, request_model_id, backend_used, fallback_used, msg)

\* faulty variant of Reraises: the flag is ignored
ReraisesNever(req) == FALSE

\* "if not request.fallback_enabled: raise e" after a failed primary attempt
Reraises(req) == ~req.fallback_enabled

\* the rest of process_image after the fallback walk f
AfterFallback(req, primary, f, encode_ok) ==
    IF f.exc # None
    THEN [st |-> f.st,
          dispatch |-> [NoDispatch EXCEPT !.primary = primary, !.walked = TRUE,
                                          !.walk = f.walk],
          response |-> Handler(TRUE, req.model_id, primary.backend, FALSE, f.msg)]
    ELSE [st |-> f.st,
          dispatch |-> [primary |-> primary, walked |-> TRUE, walk |-> f.walk,
                        ran |-> IF encode_ok THEN f.ran ELSE None,
                        masked |-> f.masked,
                        producer |-> IF encode_ok THEN f.producer ELSE None],
          response |-> IF encode_ok
                       THEN Response(TRUE, req.model_id, f.backend, TRUE, None)
                       ELSE Handler(TRUE, req.model_id, f.backend, TRUE, "encode error")]

\* the rest of process_image after the primary attempt p with backend_used
AfterPrimary(req, model_info, backend_used, p, faults, encode_ok) ==
    IF p.exc = None
    THEN [st |-> p.st,
          dispatch |-> [primary |-> [backend |-> backend_used, exc |-> None, msg |-> None],
                        walked |-> FALSE, walk |-> <<>>,
                        ran |-> IF encode_ok THEN p.ran ELSE None,
                        masked |-> p.masked,
                        producer |-> IF encode_ok THEN model_info ELSE None],
          response |-> IF encode_ok
                       THEN Response(TRUE, req.model_id, backend_used, FALSE, None)
                       ELSE Handler(TRUE, req.model_id, backend_used, FALSE, "encode error")]
    ELSE IF Reraises(req)
    THEN [st |-> p.st,
          dispatch |-> [NoDispatch EXCEPT !.primary =
                            [backend |-> backend_used, exc |-> p.exc, msg |-> p.msg]],
          response |-> Handler(TRUE, req.model_id, backend_used, FALSE, p.msg)]
    ELSE AfterFallback(req, [backend |-> backend_used, exc |-> p.exc, msg |-> p.msg],
                       _process_with_fallback(p.st, model_info, faults), encode_ok)

\* "request.backend_preference or model_info.backend"
PreferredBackend(req) ==
    IF req.backend_preference # None THEN req.backend_preference
    ELSE Info[req.model_id].backend

\* UnifiedProcessor.process_image.  faults[1] is what goes wrong in the
\* primary attempt, encode_ok whether _encode_image_to_base64 returns.
process_image(S, req, faults, encode_ok) ==
    IF get_model_info(req.model_id) = None
    THEN [st |-> S, dispatch |-> NoDispatch,
          response |-> Handler(FALSE, req.model_id, None, FALSE, "not found")]
    ELSE IF req.image # "png"
    THEN [st |-> S, dispatch |-> NoDispatch,
          response |-> Handler(FALSE, req.model_id, None, FALSE, "cannot identify image file")]
    ELSE AfterPrimary(req, req.model_id, PreferredBackend(req),
                      _process_with_backend(S, req.model_id, PreferredBackend(req), faults[1]),
                      faults, encode_ok)

----------------------------------------------------------------------------
(* Requests                                                                *)

\* the longest fallback chain of the catalog
MaxChain == 3

\* The model ids requests are drawn from: a native model whose weights are
\* missing, a builtin model, a native model with a chain of three, an onnx
\* and a safetensors model, a cpu-vision model, a native model without
\* architecture whose chain starts with a native model, and an unknown id
RequestIds == {"midas_v21", "builtin_depth", "hed_safe", "dwpose",
               "clip_vision", "inpaint_only", "manga_line", "unknown_model"}

Requests ==
    [model_id : RequestIds, image : {"png"},
     backend_preference : ProcessingBackend \cup {None},
     fallback_enabled : BOOLEAN]
    \cup [model_id : RequestIds, image : {"garbage"},
          backend_preference : {None}, fallback_enabled : {TRUE}]

\* the fallback attempts a request can lead to: one per chain entry
Candidates(req) ==
    IF req.model_id \notin ModelIds \/ req.image # "png" \/ ~req.fallback_enabled THEN 0
    ELSE Len(Info[req.model_id].fallback_models)

\* What goes wrong while a request is served: in the primary attempt, in
\* the attempts with the first `failing` entries of the chain (their
\* pipeline raises), or in the encoding of the result.  The walk stops at
\* the first attempt that succeeds, so what would go wrong after it makes
\* no difference.
Scenarios(req) ==
    {sc \in [primary : FaultKinds, failing : 0..MaxChain, encode_ok : BOOLEAN] :
        /\ sc.failing <= Candidates(req)
        /\ sc.primary = "none" => sc.failing = 0
        /\ ~sc.encode_ok => sc.primary = "none"}

\* faults[1] for the primary attempt, faults[i + 1] for the i-th chain entry
FaultSeq(sc) ==
    [i \in 1..(MaxChain + 1) |->
        IF i = 1 THEN sc.primary
        ELSE IF i - 1 <= sc.failing THEN "pipe" ELSE "none"]

\* the registry and the observation of the call after process_image returned out
Served(out) ==
    /\ SetMachine(out.st)
    /\ response' = out.response
    /\ dispatch' = out.dispatch

Process(req, faults, encode_ok) ==
    /\ nRequests < MaxRequests
    /\ Served(process_image(Machine, req, faults, encode_ok))
    /\ injected' = (faults[1] # "none" \/ ~encode_ok)
    /\ request' = req
    /\ nRequests' = nRequests + 1
    /\ UNCHANGED <<env, nLoads, knownLoads, lastLoad, batch, readout, threads, render>>

----------------------------------------------------------------------------
(* The batch endpoint                                                      *)

\* the batches a client sends hold at most MaxBatch requests
MaxBatch == 2

NoBatch == [calls |-> 0, requests |-> <<>>, outcome |-> None, exc |-> None,
            body |-> None]

\* nothing goes wrong in a request of a batch but what the registry decides
NoFaults == [i \in 1..(MaxChain + 1) |-> "none"]

\* the dict batch_process returns
BatchBody(requests, results) ==
    [success |-> TRUE,
     total_requests |-> Len(requests),
     successful |-> Cardinality({i \in DOMAIN results : results[i].success}),
     failed |-> Cardinality({i \in DOMAIN results : ~results[i].success}),
     results |-> results]

\* the for loop of batch_process from the i-th request on; a call of
\* process_image that raises ends the loop and the endpoint
RECURSIVE BatchLoop(_, _, _, _)
\* the body of the loop: out is what process_image did with the i-th request
RECURSIVE BatchStep(_, _, _, _)
BatchStep(requests, i, results, out) ==
    IF out.response.outcome = "raised"
    THEN [st |-> out.st, outcome |-> "raised", exc |-> out.response.exc, body |-> None]
    ELSE BatchLoop(out.st, requests, i + 1, Append(results, out.response))

BatchLoop(S, requests, i, results) ==
    IF i > Len(requests)
    THEN [st |-> S, outcome |-> "response", exc |-> None, body |-> BatchBody(requests, results)]
    ELSE BatchStep(requests, i, results, process_image(S, requests[i], NoFaults, TRUE))

\* the endpoint batch_process
batch_process(S, requests) == BatchLoop(S, requests, 1, <<>>)

\* the requests batches are made of: a builtin model, a native model whose
\* weights are missing (with and without fallback) and an unknown id
BatchRequests ==
    {[model_id |-> "builtin_depth", image |-> "png", backend_preference |-> None,
      fallback_enabled |-> TRUE],
     [model_id |-> "midas_v21", image |-> "png", backend_preference |-> None,
      fallback_enabled |-> TRUE],
     [model_id |-> "midas_v21", image |-> "png", backend_preference |-> None,
      fallback_enabled |-> FALSE],
     [model_id |-> "unknown_model", image |-> "png", backend_preference |-> None,
      fallback_enabled |-> TRUE]}

Batches == UNION {[1..n -> BatchRequests] : n \in 0..MaxBatch}

\* the registry and the observation of the call after batch_process returned out
Batched(requests, out) ==
    /\ SetMachine(out.st)
    /\ batch' = [calls |-> batch.calls + 1, requests |-> requests,
                 outcome |-> out.outcome, exc |-> out.exc, body |-> out.body]

Batch(requests) ==
    /\ batch.calls < MaxRequests
    /\ Batched(requests, batch_process(Machine, requests))
    /\ UNCHANGED <<env, nLoads, knownLoads, lastLoad, nRequests, request, response,
                   dispatch, injected, readout, threads, render>>

----------------------------------------------------------------------------
(* Reads of the registry                                                   *)

NoRead == [op |-> None, arg |-> None, result |-> None]

\* self.models.values(): the ids in the order of the catalog
CatalogIds == [i \in DOMAIN Catalog |-> Catalog[i].id]

\* faulty variant of IsAvailable: a loaded descriptor is listed too
IsAvailableOrLoaded(S, m) == S.models[m].status \in {AVAILABLE, LOADED}

\* "m.status == ModelStatus.AVAILABLE"
IsAvailable(S, m) == S.models[m].status = AVAILABLE

\* ModelRegistry.get_available_models; the list holds the descriptors,
\* given here by their ids
get_available_models(S, processor_type) ==
    IF processor_type # None
    THEN SelectSeq(SelectSeq(CatalogIds, LAMBDA m : IsAvailable(S, m)),
                   LAMBDA m : Info[m].processor_type = processor_type)
    ELSE SelectSeq(CatalogIds, LAMBDA m : IsAvailable(S, m))

\* The statistics a caller holds are a dict of its own or the dict of the
\* registry; Seen(d) is what the caller reads in it now
Seen(d) == IF d.shared THEN cache_stats ELSE d.value

\* faulty variant of CacheStatsCopy: the dict itself is handed out
CacheStatsAlias(S) == [shared |-> TRUE, value |-> S.cache_stats]

\* "self.cache_stats.copy()"
CacheStatsCopy(S) == [shared |-> FALSE, value |-> S.cache_stats]

\* ModelRegistry.get_registry_stats (without the two tables of counts by
\* type and by backend, which depend on the catalog alone)
get_registry_stats(S) ==
    [total_models |-> Cardinality(ModelIds),
     available_models |-> Cardinality({m \in ModelIds : S.models[m].status = AVAILABLE}),
     loaded_models |-> Len(S.model_cache),
     cache_stats |-> CacheStatsCopy(S),
     pytorch_available |-> PYTORCH_AVAILABLE]

\* the processor types lists are asked for, None for no filter
Filters == {None, "depth_estimation", "soft_edge"}

\* the ids get_model_info is asked for
InfoIds == {"midas_v21", "unknown_model"}

\* a caller lists the available models
ListAvailable(processor_type) ==
    /\ readout' = [op |-> "get_available_models", arg |-> processor_type,
                   result |-> get_available_models(Machine, processor_type)]
    /\ UNCHANGED <<models, model_cache, cache_stats, now, heap, env, nLoads,
                   knownLoads, lastLoad, nRequests, request, response, dispatch,
                   injected, batch, threads, render>>

\* a caller reads the statistics
ReadStats ==
    /\ readout' = [op |-> "get_registry_stats", arg |-> None,
                   result |-> get_registry_stats(Machine)]
    /\ UNCHANGED <<models, model_cache, cache_stats, now, heap, env, nLoads,
                   knownLoads, lastLoad, nRequests, request, response, dispatch,
                   injected, batch, threads, render>>

\* a caller asks for a descriptor
ReadInfo(model_id) ==
    /\ readout' = [op |-> "get_model_info", arg |-> model_id,
                   result |-> get_model_info(model_id)]
    /\ UNCHANGED <<models, model_cache, cache_stats, now, heap, env, nLoads,
                   knownLoads, lastLoad, nRequests, request, response, dispatch,
                   injected, batch, threads, render>>

----------------------------------------------------------------------------
(* UnifiedProcessor: the pixel pipelines, as functions of array shapes     *)

\* A tensor or array shape is the sequence of its dimensions; an image size
\* is <<width, height>>.

\* torch.Tensor.squeeze(): every dimension of size 1 is dropped
NotOne(d) == d # 1
squeeze(shape) == SelectSeq(shape, NotOne)

\* torch.Tensor.squeeze(0): the first dimension is dropped if its size is 1
squeeze0(shape) == IF shape # <<>> /\ shape[1] = 1 THEN Tail(shape) ELSE shape

\* prediction.shape[-2:]
Last2(shape) == SubSeq(shape, Len(shape) - 1, Len(shape))

\* F.interpolate(input, size=(h, w)) of a 4-dimensional input
interpolate(shape, size) == <<shape[1], shape[2], size[1], size[2]>>

\* The shape of model(transformed_image) for the architectures load_model
\* constructs, on the 384x384 (depth) or 512x512 (others) input the
\* transform produces
ModelOutput(model_id) ==
    CASE model_id = "midas_v21" -> <<1, 1, 384, 384>>
      [] model_id \in {"depth_leres", "depth_leres_boost"} -> <<1, 1, 8, 8>>
      [] model_id = "zoedepth" -> <<1, 1, 16, 16>>
      [] model_id \in {"network-bsds500", "hed_softedge", "hed_safe",
                       "scribble_hed", "table5_pidinet", "pidinet_softedge",
                       "pidinet_safe", "scribble_pidinet", "lineart_realistic",
                       "lineart_coarse", "lineart_anime",
                       "lineart_anime_denoise", "mlsd"} -> <<1, 1, 512, 512>>
      [] model_id = "normal_bae" -> <<1, 3, 256, 256>>
      [] model_id = "seg_anime_face" -> <<1, 8, 512, 512>>
      [] model_id \in {"seg_ofade20k", "seg_ufade20k"} -> <<1, 150, 512, 512>>
      [] model_id = "seg_ofcoco" -> <<1, 133, 512, 512>>

\* PIL.Image.fromarray(array).size for a uint8 array: a 1-dimensional array
\* is one pixel wide, otherwise the width is shape[1] and the height shape[0]
fromarray(shape) ==
    IF Len(shape) = 1 THEN <<1, shape[1]>> ELSE <<shape[2], shape[1]>>

\* The shape cv2 gives the 3-channel image it makes of a single-channel
\* array (applyColorMap, cvtColor GRAY2RGB): a 1-dimensional array of n
\* elements is an n x 1 matrix
cv2_to_rgb(shape) ==
    IF Len(shape) = 1 THEN <<shape[1], 1, 3>> ELSE <<shape[1], shape[2], 3>>

\* "Resize to original dimensions" of the single-channel pipelines:
\* F.interpolate(prediction.unsqueeze(0).unsqueeze(0), size).squeeze()
ResizeToOriginal(prediction, original) ==
    IF Last2(prediction) # original
    THEN squeeze(interpolate(<<1, 1>> \o prediction, original))
    ELSE prediction

\* "Handle different output formats" of the single-channel pipelines
RemoveBatchAndChannel(prediction) ==
    IF Len(prediction) = 4 THEN squeeze0(squeeze0(prediction))
    ELSE IF Len(prediction) = 3 THEN squeeze0(prediction)
    ELSE prediction

\* _pytorch_depth_estimation: size of the image returned for an image of
\* size <<w, h>>; colored is params.get('colored', True)
_pytorch_depth_estimation(model_id, size, colored) ==
    LET prediction == ResizeToOriginal(RemoveBatchAndChannel(ModelOutput(model_id)),
                                       <<size[2], size[1]>>)
    IN  IF colored THEN fromarray(cv2_to_rgb(prediction))
        ELSE fromarray(prediction)

\* _pytorch_edge_detection, _pytorch_lineart_processing,
\* _pytorch_soft_edge_processing, _pytorch_scribble_processing and
\* _pytorch_mlsd_processing: all end in cv2.cvtColor(..., COLOR_GRAY2RGB)
_pytorch_edge_detection(model_id, size) ==
    fromarray(cv2_to_rgb(
        ResizeToOriginal(RemoveBatchAndChannel(ModelOutput(model_id)),
                         <<size[2], size[1]>>)))

\* _pytorch_normal_processing: the channel dimension is kept, and
\* squeeze(0) drops the batch dimension only
_pytorch_normal_processing(model_id, size) ==
    LET out == ModelOutput(model_id)
        chw == IF Last2(out) # <<size[2], size[1]>>
               THEN <<out[2], size[2], size[1]>>
               ELSE squeeze0(out)
    IN  fromarray(<<chw[2], chw[3], chw[1]>>)

\* _pytorch_segmentation_processing: argmax over the classes, resize,
\* then colors[segmentation_numpy], which appends a dimension of size 3
_pytorch_segmentation_processing(model_id, size) ==
    LET out == ModelOutput(model_id)
        classes == squeeze0(<<out[1], out[3], out[4]>>)
    IN  fromarray(ResizeToOriginal(classes, <<size[2], size[1]>>) \o <<3>>)

\* The pipelines that work on np.array(image), of shape (h, w, 3), with
\* operations that keep the two leading dimensions: every _opencv_*
\* pipeline, _process_builtin, _onnx_pose_processing,
\* _safetensors_clip_processing and the canvas of _pytorch_pose_processing
ArrayPipeline(size) == fromarray(<<size[2], size[1], 3>>)

\* The pipeline a dispatch to the model's own backend runs once the model
\* is loaded, and the size of the image it returns
PipelineSize(model_id, size, colored) ==
    LET pt == Info[model_id].processor_type
    IN  IF Info[model_id].backend # PYTORCH THEN ArrayPipeline(size)
        ELSE IF pt = "depth_estimation"
        THEN _pytorch_depth_estimation(model_id, size, colored)
        ELSE IF pt = "normal_map" THEN _pytorch_normal_processing(model_id, size)
        ELSE IF pt = "segmentation"
        THEN _pytorch_segmentation_processing(model_id, size)
        ELSE _pytorch_edge_detection(model_id, size)

\* Image widths and heights: one pixel, a few pixels, and the sizes the
\* models answer in
Dims == {1, 2, 3, 8, 16, 512}

\* every image size but the single pixel
Sizes == (Dims \X Dims) \ {<<1, 1>>}

\* The models the pipelines are run with: one per architecture whose
\* pipeline returns an image, and one model of each other backend
RenderIds == {"depth_leres", "zoedepth", "network-bsds500", "hed_safe",
              "lineart_anime", "scribble_hed", "mlsd",
              "normal_bae", "seg_anime_face", "seg_ofcoco",
              "opencv_canny", "builtin_depth", "dwpose", "clip_vision"}

NoRender == [model_id |-> None, size |-> <<0, 0>>, colored |-> TRUE,
             out |-> <<0, 0>>]

\* Whether a dispatch to the model's own backend gets as far as its pipeline
\* with a model object: _process_pytorch needs torch and a model that
\* load_model can load, _process_onnx and _process_safetensors run their
\* own pipeline only if the runtime is installed
ReachesPipeline(model_id) ==
    CASE Info[model_id].backend = PYTORCH ->
             /\ PYTORCH_AVAILABLE
             /\ model_id \in KnownArchitecture
             /\ models[model_id].status \in {AVAILABLE, LOADED}
      [] Info[model_id].backend = ONNX -> ONNX_INSTALLED
      [] Info[model_id].backend = SAFETENSORS -> SAFETENSORS_INSTALLED
      [] OTHER -> TRUE

\* One run of the pipeline of model_id on an image of the given size
Render(model_id, size, colored) ==
    /\ ReachesPipeline(model_id)
    /\ render' = [model_id |-> model_id, size |-> size, colored |-> colored,
                  out |-> PipelineSize(model_id, size, colored)]
    /\ UNCHANGED <<models, model_cache, cache_stats, now, heap, env, nLoads,
                   knownLoads, lastLoad, nRequests, request, response, dispatch,
                   injected, batch, readout, threads>>

----------------------------------------------------------------------------
(* Concurrent load_model calls                                             *)

\* load_model is followed statement by statement, for native models.  A
\* thread holds the locals of its call: the id, the model object it built,
\* the key min() returned, and in the end what the call returned or raised.
\* fresh tells that the model was AVAILABLE and not cached when the call
\* was made, overlap that the other thread's call was then in progress.

Threads == {1, 2}

\* load_model calls one thread makes
MaxCalls == 1

NoThread == [pc |-> "idle", model_id |-> None, model |-> ModelObject(0),
             lru_model_id |-> None, exc |-> None, msg |-> None,
             calls |-> 0, fresh |-> FALSE, overlap |-> FALSE]

Running(t) == threads[t].pc \notin {"idle", "done"}

Quiescent == \A t \in Threads : ~Running(t)

\* thread t moves to pc and sets its locals; the registry becomes S
Step(t, pc, S, locals) ==
    /\ threads' = [threads EXCEPT ![t] = [locals EXCEPT !.pc = pc]]
    /\ SetMachine(S)
    /\ UNCHANGED <<env, nLoads, knownLoads, lastLoad, nRequests, request,
                   response, dispatch, injected, batch, readout, render>>

\* the call ends: it returns the model or raises
Ends(t, S, exc, msg) ==
    Step(t, "done", S, [threads[t] EXCEPT !.exc = exc, !.msg = msg])

\* the call is made, and lines 847-849 find the descriptor
Enter(t, model_id) ==
    /\ ~Running(t)
    /\ threads[t].calls < MaxCalls
    /\ InPoolOrder(model_id)
    /\ Step(t, "lookup", Machine,
            [NoThread EXCEPT !.model_id = model_id,
                             !.calls = threads[t].calls + 1,
                             !.fresh = /\ models[model_id].status = AVAILABLE
                                       /\ model_id \notin CachedIds(Machine),
                             !.overlap = \E u \in Threads \ {t} : Running(u)])

\* line 852: if model_id in self.model_cache
Lookup(t) ==
    /\ threads[t].pc = "lookup"
    /\ Step(t, IF threads[t].model_id \in CachedIds(Machine) THEN "hit" ELSE "miss",
            Machine, threads[t])

\* lines 853-855
Hit(t) ==
    /\ threads[t].pc = "hit"
    /\ Step(t, "hit_return",
            [Machine EXCEPT !.cache_stats.hits = @ + 1,
                            !.now = now + 1,
                            !.models[threads[t].model_id].last_used = now + 1,
                            !.models[threads[t].model_id].load_count = @ + 1],
            threads[t])

\* line 857: return self.model_cache[model_id]
HitReturn(t) ==
    /\ threads[t].pc = "hit_return"
    /\ IF threads[t].model_id \in CachedIds(Machine)
       THEN Step(t, "done", Machine,
                 [threads[t] EXCEPT !.model = CacheGet(Machine, threads[t].model_id)])
       ELSE Ends(t, Machine, "KeyError", threads[t].model_id)

\* lines 859-873: the miss is counted, torch and the status are checked
Miss(t) ==
    /\ threads[t].pc = "miss"
    /\ LET S == [Machine EXCEPT !.cache_stats.misses = @ + 1] IN
       IF ~PYTORCH_AVAILABLE
       THEN Ends(t, S, "RuntimeError", "PyTorch not available for model loading")
       ELSE IF models[threads[t].model_id].status # AVAILABLE
       THEN Ends(t, S, "FileNotFoundError", "is not available")
       ELSE Step(t, "loading", S, threads[t])

\* lines 876-937: the status becomes LOADING and the model is built
SetLoading(t) ==
    /\ threads[t].pc = "loading"
    /\ LET S == [Machine EXCEPT !.models[threads[t].model_id].status = LOADING] IN
       IF threads[t].model_id \notin KnownArchitecture
       THEN Step(t, "handler", S, [threads[t] EXCEPT !.msg = "Unknown model architecture"])
       ELSE Step(t, "cache_management", [S EXCEPT !.heap = @ + 1],
                 [threads[t] EXCEPT !.model = ModelObject(heap + 1)])

\* line 940: if len(self.model_cache) >= self.max_cache_size
CacheManagement(t) ==
    /\ threads[t].pc = "cache_management"
    /\ Step(t, IF NeedsEviction(Machine) THEN "evict" ELSE "insert", Machine, threads[t])

\* lines 960-967: _evict_least_used up to the result of min()
EvictMin(t) ==
    /\ threads[t].pc = "evict"
    /\ IF model_cache = <<>> THEN Step(t, "insert", Machine, threads[t])
       ELSE Step(t, "evict_del", Machine,
                 [threads[t] EXCEPT !.lru_model_id = LeastUsed(Machine)])

\* line 969: del self.model_cache[lru_model_id], a KeyError if the key has
\* gone; the KeyError is raised inside the try of load_model
EvictDel(t) ==
    /\ threads[t].pc = "evict_del"
    /\ IF threads[t].lru_model_id \in CachedIds(Machine)
       THEN Step(t, "evict_status",
                 [Machine EXCEPT !.model_cache = CacheDel(@, threads[t].lru_model_id)],
                 threads[t])
       ELSE Step(t, "handler", Machine, [threads[t] EXCEPT !.msg = "KeyError"])

\* lines 970-971
EvictStatus(t) ==
    /\ threads[t].pc = "evict_status"
    /\ Step(t, "insert",
            [Machine EXCEPT !.models[threads[t].lru_model_id].status = AVAILABLE,
                            !.cache_stats.evictions = @ + 1],
            threads[t])

\* line 943: self.model_cache[model_id] = model
Insert(t) ==
    /\ threads[t].pc = "insert"
    /\ Step(t, "finish",
            [Machine EXCEPT !.model_cache = CachePut(@, threads[t].model_id, threads[t].model)],
            threads[t])

\* lines 944-950
Finish(t) ==
    /\ threads[t].pc = "finish"
    /\ Step(t, "done",
            [Machine EXCEPT !.models[threads[t].model_id].status = LOADED,
                            !.now = now + 1,
                            !.models[threads[t].model_id].last_used = now + 1,
                            !.models[threads[t].model_id].load_count = @ + 1,
                            !.cache_stats.total_loaded = @ + 1],
            threads[t])

\* lines 952-956: except Exception as e
ExceptHandler(t) ==
    /\ threads[t].pc = "handler"
    /\ Ends(t, [Machine EXCEPT !.models[threads[t].model_id].status = ERROR,
                               !.models[threads[t].model_id].error_message = threads[t].msg],
            "RuntimeError", "Failed to load model")

\* one statement of one thread
ThreadStep(t) ==
    \/ Lookup(t) \/ Hit(t) \/ HitReturn(t) \/ Miss(t) \/ SetLoading(t)
    \/ CacheManagement(t) \/ EvictMin(t) \/ EvictDel(t) \/ EvictStatus(t)
    \/ Insert(t) \/ Finish(t) \/ ExceptHandler(t)

\* a load made before any thread has called: it fills the cache
Warmup(model_id) ==
    /\ \A t \in Threads : threads[t].calls = 0
    /\ Untouched(model_id)
    /\ Load(model_id, FALSE)

----------------------------------------------------------------------------
(* Specifications                                                          *)

Init ==
    /\ \E e \in Environments :
        /\ PYTORCH_AVAILABLE = e.pytorch
        /\ ONNX_INSTALLED = e.onnx
        /\ SAFETENSORS_INSTALLED = e.safetensors
        /\ disk = e.disk
    /\ LET R == RegistryInit(disk) IN
       /\ models = R.models
       /\ model_cache = R.model_cache
       /\ cache_stats = R.cache_stats
    /\ now = 0
    /\ heap = 0
    /\ nLoads = 0
    /\ knownLoads = 0
    /\ lastLoad = NoCall
    /\ nRequests = 0
    /\ request = NoRequest
    /\ response = NoResponse
    /\ dispatch = NoDispatch
    /\ injected = FALSE
    /\ batch = NoBatch
    /\ readout = NoRead
    /\ threads = [t \in Threads |-> NoThread]
    /\ render = NoRender

\* the registry under a sequence of load_model calls
Next == \E model_id \in LoadIds, raises \in BOOLEAN : Load(model_id, raises)

Spec == Init /\ [][Next]_vars

\* the registry under loads of native models, the clock advancing between
\* two calls or not
TieIds == {NativePool[i] : i \in DOMAIN NativePool}

TieNext ==
    \E model_id \in TieIds :
        \/ Load(model_id, FALSE)
        \/ LoadSameInstant(model_id)

TieSpec == Init /\ [][TieNext]_vars

\* the requests the service is sent between loads: one that loads a native
\* model or falls back, one that routes a builtin model through PyTorch
ServiceRequests ==
    {[model_id |-> "hed_safe", image |-> "png", backend_preference |-> None,
      fallback_enabled |-> TRUE],
     [model_id |-> "builtin_depth", image |-> "png", backend_preference |-> PYTORCH,
      fallback_enabled |-> FALSE]}

\* the ids the service loads directly, each once: the pool and a native
\* model without architecture
ServiceIds == TieIds \cup {"openpose_full"}

\* the registry under first loads, process requests and reads
ServiceNext ==
    \/ \E model_id \in ServiceIds : Untouched(model_id) /\ Load(model_id, FALSE)
    \/ \E req \in ServiceRequests : Process(req, NoFaults, TRUE)
    \/ \E processor_type \in Filters : ListAvailable(processor_type)
    \/ ReadStats
    \/ \E model_id \in InfoIds : ReadInfo(model_id)

ServiceSpec == Init /\ [][ServiceNext]_vars

\* the service under a sequence of batch_process calls
BatchNext == \E requests \in Batches : Batch(requests)

BatchSpec == Init /\ [][BatchNext]_vars

\* the service under a sequence of process_image calls
ProcNext ==
    \E req \in Requests :
        \E sc \in Scenarios(req) : Process(req, FaultSeq(sc), sc.encode_ok)

ProcSpec == Init /\ [][ProcNext]_vars

\* load_model called from two threads, after sequential loads have filled
\* the cache to any level.  The ids are the pool and one more native model,
\* so that two models are uncached while the cache is full
RaceIds == {NativePool[i] : i \in DOMAIN NativePool} \cup {"lineart_anime"}

RaceNext ==
    \/ \E model_id \in RaceIds : Warmup(model_id)
    \/ \E t \in Threads, model_id \in RaceIds : Enter(t, model_id)
    \/ \E t \in Threads : ThreadStep(t)

RaceSpec == Init /\ [][RaceNext]_vars

\* The weight files whose presence varies when the prober is looked at alone
ProbeFiles == {"midas_v21_384.pt", "ZoeD_M12_N.pt", "table5_pidinet.pth",
               "ControlNetHED.pth", "yolox_l.onnx",
               "clip_vision_model.safetensors", "big-lama.pt"}

\* The registry directly after construction, on any set of those files
ProbeInit ==
    /\ PYTORCH_AVAILABLE \in BOOLEAN
    /\ ONNX_INSTALLED = FALSE
    /\ SAFETENSORS_INSTALLED = FALSE
    /\ disk \in SUBSET ProbeFiles
    /\ LET R == RegistryInit(disk) IN
       /\ models = R.models
       /\ model_cache = R.model_cache
       /\ cache_stats = R.cache_stats
    /\ now = 0
    /\ heap = 0
    /\ nLoads = 0
    /\ knownLoads = 0
    /\ lastLoad = NoCall
    /\ nRequests = 0
    /\ request = NoRequest
    /\ response = NoResponse
    /\ dispatch = NoDispatch
    /\ injected = FALSE
    /\ batch = NoBatch
    /\ readout = NoRead
    /\ threads = [t \in Threads |-> NoThread]
    /\ render = NoRender

\* _check_model_availability run once more, the files being as they were
Reprobe ==
    /\ models' = _check_model_availability(models, disk)
    /\ readout' = [op |-> "_check_model_availability", arg |-> None, result |-> None]
    /\ UNCHANGED <<model_cache, cache_stats, now, heap, env, nLoads,
                   knownLoads, lastLoad, nRequests, request, response, dispatch,
                   injected, batch, threads, render>>

ProbeNext == Reprobe

ProbeSpec == ProbeInit /\ [][ProbeNext]_vars

\* the pixel pipelines alone, on every image size
RenderNext ==
    \E model_id \in RenderIds, size \in Sizes, colored \in BOOLEAN :
        Render(model_id, size, colored)

RenderSpec == Init /\ [][RenderNext]_vars

----------------------------------------------------------------------------
(* Properties of the model cache                                           *)

\* C1: after every load_model call (hit, miss, failing load, load that
\* evicts) the cache holds at most max_cache_size entries.
C1_CacheBound == Len(model_cache) <= max_cache_size

\* the cache is full after a load that evicted
C1_Witness ==
    /\ Len(model_cache) = max_cache_size
    /\ cache_stats.evictions >= 1
    /\ lastLoad.exc = None
    /\ lastLoad.model_id \in CachedIds(Machine)


----------------------------------------------------------------------------
(* Properties of process_image                                             *)

\* the descriptor statuses of a registry
Statuses(mods) == [m \in ModelIds |-> mods[m].status]

\* C2: process_image called with a model id that is not in the registry
\* returns a response with success = false whose error says the model was
\* not found, and leaves the cache, the cache statistics and every
\* descriptor status as they were.
C2_UnknownModelResponse ==
    [][(nRequests' = nRequests + 1 /\ request'.model_id \notin ModelIds)
        => /\ response'.outcome = "response"
           /\ ~response'.success
           /\ response'.error = "not found"
           /\ model_cache' = model_cache
           /\ cache_stats' = cache_stats
           /\ Statuses(models') = Statuses(models)]_vars

\* C3: process_image is the error boundary: whatever the request
\* (undecodable image, unknown model id, failing primary attempt without
\* fallback, exhausted chain, failing encode) it returns a response and no
\* exception reaches the caller.
C3_NeverRaises ==
    nRequests > 0 => response.outcome = "response"

\* C4: whatever process requests were served before, a request for
\* midas_v21 with no backend preference and fallback enabled, its weights
\* file missing and nothing else going wrong, returns success = true, fallback_used = true and
\* backend_used = builtin.
C4_MidasFallsBackToBuiltin ==
    (/\ nRequests > 0
     /\ request.model_id = "midas_v21"
     /\ request.image = "png"
     /\ request.backend_preference = None
     /\ request.fallback_enabled
     /\ Info["midas_v21"].file_path \notin disk
     /\ ~injected)
    => /\ response.outcome = "response"
       /\ response.success
       /\ response.fallback_used
       /\ response.backend_used = BUILTIN

----------------------------------------------------------------------------
(* Properties of the fallback chain                                        *)

\* the primary attempt of the last request failed and fallback was enabled
PrimaryFailedWithFallback ==
    /\ nRequests > 0
    /\ response.outcome # "raised"
    /\ dispatch.primary.exc # None
    /\ request.fallback_enabled

\* the walk of the last request came to the end of the chain without a
\* success: every entry was passed over or failed
ChainExhausted ==
    /\ Len(dispatch.walk) = Len(Info[request.model_id].fallback_models)
    /\ \A i \in DOMAIN dispatch.walk :
          ~dispatch.walk[i].attempted \/ dispatch.walk[i].exc # None

\* C5: when the primary attempt fails, fallback is enabled and every entry
\* of the chain (an empty chain included) is missing, not AVAILABLE or
\* fails, process_image returns success = false with the error "All
\* fallback options failed" and does not raise.
C5_ExhaustionIsReported ==
    (PrimaryFailedWithFallback /\ ChainExhausted)
    => /\ response.outcome = "response"
       /\ ~response.success
       /\ response.processed_image = None
       /\ response.error = ALL_FALLBACKS_FAILED

\* a chain of three is exhausted: one entry passed over, two failed
C5_Witness ==
    /\ PrimaryFailedWithFallback
    /\ ChainExhausted
    /\ Len(dispatch.walk) = MaxChain
    /\ \E i \in DOMAIN dispatch.walk : ~dispatch.walk[i].attempted
    /\ \E i \in DOMAIN dispatch.walk : dispatch.walk[i].exc # None
    /\ response.error = ALL_FALLBACKS_FAILED

\* C6: with fallback disabled and a failing primary attempt no candidate
\* of the chain is attempted, and the response has success = false and
\* the error message of the primary attempt, never the message of an
\* exhausted chain.
C6_DisabledFallbackSurfacesPrimaryError ==
    (/\ nRequests > 0
     /\ dispatch.primary.exc # None
     /\ ~request.fallback_enabled)
    => /\ ~dispatch.walked
       /\ dispatch.walk = <<>>
       /\ response.outcome = "response"
       /\ ~response.success
       /\ ~response.fallback_used
       /\ response.error = dispatch.primary.msg
       /\ response.error # ALL_FALLBACKS_FAILED

\* fallback is disabled, the primary attempt of a model with a non-empty
\* chain whose first entry is AVAILABLE fails, and its error is returned
C6_Witness ==
    /\ nRequests > 0
    /\ ~request.fallback_enabled
    /\ dispatch.primary.exc # None
    /\ request.model_id = "hed_safe"
    /\ models["opencv_canny"].status = AVAILABLE
    /\ response.outcome = "response"
    /\ response.error = dispatch.primary.msg

\* no fallback chain of the catalog names a model twice or names its owner
ChainsAreDuplicateFree ==
    \A m \in ModelIds :
        LET chain == Info[m].fallback_models IN
        /\ \A i \in DOMAIN chain : chain[i] # m
        /\ \A i, j \in DOMAIN chain : i # j => chain[i] # chain[j]

\* C7: after a failed primary attempt with fallback enabled the chain is
\* walked in declared order; a candidate that is missing or not AVAILABLE
\* is passed over, every other candidate is attempted once with its own
\* declared backend, the walk stops at the first success, and no model id
\* (the primary's included) is tried twice within one request.
C7_WalkInDeclaredOrder ==
    /\ ChainsAreDuplicateFree
    /\ PrimaryFailedWithFallback
       => LET chain == Info[request.model_id].fallback_models
              walk  == dispatch.walk
          IN /\ dispatch.walked
             /\ Len(walk) <= Len(chain)
             /\ \A i \in DOMAIN walk :
                   /\ walk[i].id = chain[i]
                   /\ walk[i].id # request.model_id
                   /\ walk[i].attempted <=> (walk[i].id \in ModelIds
                                             /\ walk[i].status = AVAILABLE)
                   /\ walk[i].attempted => walk[i].backend = Info[walk[i].id].backend
                   /\ (walk[i].attempted /\ walk[i].exc = None) => i = Len(walk)
                   /\ \A j \in DOMAIN walk : i # j => walk[i].id # walk[j].id
             /\ Len(walk) < Len(chain)
                   => (walk # <<>> /\ walk[Len(walk)].attempted
                       /\ walk[Len(walk)].exc = None)
             /\ response.success
                   => (/\ walk # <<>>
                       /\ walk[Len(walk)].attempted
                       /\ walk[Len(walk)].exc = None
                       /\ dispatch.producer = walk[Len(walk)].id)

\* a walk that passes over its first candidate, succeeds with the second
\* and leaves the third alone
C7_Witness ==
    /\ PrimaryFailedWithFallback
    /\ Len(dispatch.walk) = 2
    /\ Len(Info[request.model_id].fallback_models) = 3
    /\ ~dispatch.walk[1].attempted
    /\ dispatch.walk[2].attempted
    /\ dispatch.walk[2].exc = None
    /\ response.success
    /\ response.fallback_used

----------------------------------------------------------------------------
(* Properties of the response                                              *)

\* the last request was answered with success = true
Succeeded ==
    /\ nRequests > 0
    /\ response.outcome = "response"
    /\ response.success

\* C8: whenever a fallback candidate produces the output of a request, the
\* candidate's processor_type is the processor_type of the requested
\* model.
C8_FallbackKeepsProcessorType ==
    (Succeeded /\ response.fallback_used)
    => Info[dispatch.producer].processor_type = Info[request.model_id].processor_type

\* C9: whenever a response has success = true, backend_used names the
\* backend whose pipeline produced the output, whatever the backend and
\* whether or not its runtime is installed.
C9_BackendUsedProducedOutput ==
    Succeeded => response.backend_used = dispatch.ran

----------------------------------------------------------------------------
(* Properties of consecutive loads                                         *)

\* a load_model call that follows a call for the same model id
SameIdAgain ==
    /\ nLoads' = nLoads + 1
    /\ lastLoad.model_id \in ModelIds
    /\ lastLoad'.model_id = lastLoad.model_id

\* C10 as stated: for every model id whose descriptor is available
\* (native with its weights file, builtin or cpu-vision) and loads, a second
\* load right after the first, with no eviction, leaves hits >= 1 and
\* returns the same handle object as the first.
C10_SecondLoadHits ==
    [][(/\ SameIdAgain
        /\ ProbeStatus(lastLoad.model_id, disk) = AVAILABLE
        /\ lastLoad.exc = None
        /\ cache_stats'.evictions = cache_stats.evictions)
       => /\ lastLoad'.exc = None
          /\ lastLoad'.handle = lastLoad.handle
          /\ cache_stats'.hits >= 1]_vars

\* C10, amended: when load_model has returned the model object of a
\* native model, a load of the same id right after it is a cache hit: it
\* returns the same object, hits grows by one (so hits >= 1), misses and
\* the cache stay as they are.  A builtin or cpu-vision model is never
\* cached: the second load is a miss again and returns a new sentinel.
C10_SecondLoadOfNativeHits ==
    [][(SameIdAgain /\ lastLoad.exc = None)
       => IF lastLoad.handle.kind = "model"
          THEN /\ lastLoad'.exc = None
               /\ lastLoad'.handle = lastLoad.handle
               /\ cache_stats'.hits = cache_stats.hits + 1
               /\ cache_stats'.hits >= 1
               /\ cache_stats'.misses = cache_stats.misses
               /\ model_cache' = model_cache
          ELSE /\ lastLoad'.exc = None
               /\ lastLoad'.handle.kind = "sentinel"
               /\ lastLoad'.handle.ref # lastLoad.handle.ref
               /\ cache_stats'.hits = cache_stats.hits
               /\ cache_stats'.misses = cache_stats.misses + 1
               /\ model_cache' = model_cache]_vars

\* a native model was loaded twice in a row: a miss, then a hit
C10_Witness ==
    /\ nLoads = 2
    /\ lastLoad.exc = None
    /\ lastLoad.handle.kind = "model"
    /\ models[lastLoad.model_id].load_count = 2
    /\ cache_stats.hits = 1
    /\ cache_stats.misses = 1

----------------------------------------------------------------------------
(* Properties of eviction                                                  *)

\* a load_model call returns the model it built for a native id that was
\* not cached, the cache being full when it was called
FullCacheMissLoaded ==
    /\ nLoads' = nLoads + 1
    /\ Len(model_cache) = max_cache_size
    /\ lastLoad'.exc = None
    /\ Info[lastLoad'.model_id].backend \notin {BUILTIN, OPENCV}
    /\ lastLoad'.model_id \notin CachedIds(Machine)

\* C11: when the cache holds max_cache_size entries and a native model that
\* is not cached is loaded, exactly one cached entry is removed, its
\* descriptor status becomes AVAILABLE, evictions grows by one, and the
\* other cached entries and their statuses stay as they were.
C11_EvictsExactlyOne ==
    [][FullCacheMissLoaded
       => \E k \in DOMAIN model_cache :
             LET gone == model_cache[k].id IN
             /\ model_cache' = Append(CacheDel(model_cache, gone),
                                      [id |-> lastLoad'.model_id,
                                       handle |-> lastLoad'.handle])
             /\ Len(model_cache') = max_cache_size
             /\ models'[gone].status = AVAILABLE
             /\ cache_stats'.evictions = cache_stats.evictions + 1
             /\ \A m \in ModelIds \ {gone, lastLoad'.model_id} :
                   models'[m].status = models[m].status]_vars

\* a load has evicted: the cache is full, the new model is its last entry
\* and a descriptor that was loaded before is AVAILABLE again
C11_Witness ==
    /\ cache_stats.evictions >= 1
    /\ Len(model_cache) = max_cache_size
    /\ lastLoad.exc = None
    /\ model_cache[max_cache_size].id = lastLoad.model_id
    /\ models[lastLoad.model_id].load_count = 1
    /\ \E m \in ModelIds \ CachedIds(Machine) :
          /\ Info[m].backend = PYTORCH
          /\ models[m].status = AVAILABLE
          /\ models[m].load_count >= 1

\* C12: the entry evicted is the cached id with the oldest last_used, so a
\* cached model with a later last_used than another cached model is never
\* evicted before it; among equal timestamps the first id in the iteration
\* order of the cache is evicted; a cache hit refreshes last_used.
C12_EvictsLeastRecentlyUsed ==
    [][/\ (nLoads' = nLoads + 1 /\ cache_stats'.evictions > cache_stats.evictions)
          => \E k \in DOMAIN model_cache :
                /\ model_cache[k].id \notin {model_cache'[i].id : i \in DOMAIN model_cache'}
                /\ \A j \in DOMAIN model_cache :
                      /\ LastUsedKey(Machine, k) <= LastUsedKey(Machine, j)
                      /\ j < k => LastUsedKey(Machine, k) < LastUsedKey(Machine, j)
       /\ (nLoads' = nLoads + 1 /\ cache_stats'.hits > cache_stats.hits)
          => /\ models'[lastLoad'.model_id].last_used = now'
             /\ \A m \in ModelIds : models'[m].last_used <= now'
             /\ model_cache' = model_cache]_vars

\* one eviction has happened; the entry evicted was not the first of the
\* cache (the first object ever built is still cached, refreshed by a hit)
\* and shares its last_used with an entry that stayed
C12_Witness ==
    /\ cache_stats.evictions = 1
    /\ Len(model_cache) = max_cache_size
    /\ model_cache[1].handle.ref = 1
    /\ models[model_cache[1].id].load_count >= 2
    /\ \E gone \in ModelIds \ CachedIds(Machine) :
          /\ models[gone].load_count >= 1
          /\ models[gone].status = AVAILABLE
          /\ \E i \in DOMAIN model_cache :
                /\ LastUsedKey(Machine, i) = models[gone].last_used
                /\ i > 1

----------------------------------------------------------------------------
(* Properties of loads that fail                                           *)

\* a load_model call for model_id has just been made
Called(model_id) == nLoads' = nLoads + 1 /\ lastLoad'.model_id = model_id

\* the call left the cache and every descriptor status as they were
CacheAndStatusesKept ==
    /\ model_cache' = model_cache
    /\ Statuses(models') = Statuses(models)

\* C13: a load that fails because the id is unknown, because the
\* descriptor status is NOT_FOUND or because PyTorch is absent raises the
\* error of its own kind (ValueError, FileNotFoundError, RuntimeError) and
\* leaves the cache and every descriptor status unchanged.
C13_RefusedLoadChangesNothing ==
    [][\A model_id \in LoadIds :
          Called(model_id)
          => /\ model_id \notin ModelIds
                => /\ lastLoad'.exc = "ValueError"
                   /\ lastLoad'.msg = "not found in registry"
                   /\ CacheAndStatusesKept
                   /\ cache_stats' = cache_stats
             /\ (/\ model_id \in ModelIds
                 /\ Info[model_id].backend \notin {BUILTIN, OPENCV}
                 /\ ~PYTORCH_AVAILABLE)
                => /\ lastLoad'.exc = "RuntimeError"
                   /\ lastLoad'.msg = "PyTorch not available for model loading"
                   /\ CacheAndStatusesKept
             /\ (/\ model_id \in ModelIds
                 /\ Info[model_id].backend \notin {BUILTIN, OPENCV}
                 /\ PYTORCH_AVAILABLE
                 /\ models[model_id].status = NOT_FOUND)
                => /\ lastLoad'.exc = "FileNotFoundError"
                   /\ lastLoad'.msg = "is not available"
                   /\ CacheAndStatusesKept
                   /\ models'[model_id].status = NOT_FOUND]_vars

\* a load was refused because the weights file is missing, after other
\* models were loaded into the cache
C13_Witness ==
    /\ lastLoad.exc = "FileNotFoundError"
    /\ models[lastLoad.model_id].status = NOT_FOUND
    /\ model_cache # <<>>
    /\ cache_stats.misses >= 2

----------------------------------------------------------------------------
(* Properties of batch_process                                             *)

\* C14: batch_process applies process_image to the requests in the given
\* order and returns one result per request in that order, with successful
\* + failed = total_requests; a request that fails, an unknown model id
\* included, does not keep the later requests from being processed.
C14_OneResultPerRequest ==
    batch.calls > 0
    => /\ batch.outcome = "response"
       /\ batch.body.total_requests = Len(batch.requests)
       /\ Len(batch.body.results) = Len(batch.requests)
       /\ \A i \in DOMAIN batch.requests :
             batch.body.results[i].model_used = batch.requests[i].model_id
       /\ batch.body.successful + batch.body.failed = batch.body.total_requests

----------------------------------------------------------------------------
(* Properties of the reads                                                 *)

\* the set of the entries of a list
Range(seq) == {seq[i] : i \in DOMAIN seq}

\* a read has just returned
ReadReturned(op) == readout' # readout /\ readout'.op = op

\* C15: in every reachable state get_available_models returns exactly the
\* descriptors whose status is AVAILABLE, of the given processor type when
\* a filter is passed, each once, and changes nothing; a descriptor that
\* is LOADED, LOADING, ERROR or NOT_FOUND is never returned; get_model_info
\* of an unknown id returns None.
C15_ListsExactlyAvailable ==
    [][/\ ReadReturned("get_available_models")
          => /\ Range(readout'.result)
                  = {m \in ModelIds :
                        /\ models[m].status = AVAILABLE
                        /\ readout'.arg # None => Info[m].processor_type = readout'.arg}
             /\ Len(readout'.result) = Cardinality(Range(readout'.result))
             /\ \A m \in Range(readout'.result) :
                   models[m].status \notin {LOADED, LOADING, ERROR, NOT_FOUND}
             /\ UNCHANGED <<models, model_cache, cache_stats>>
       /\ (ReadReturned("get_model_info") /\ readout'.arg \notin ModelIds)
          => /\ readout'.result = None
             /\ UNCHANGED <<models, model_cache, cache_stats>>]_vars

\* the list of the soft_edge models as it is now: some are in it, a loaded
\* one is not, while a descriptor elsewhere is in ERROR
C15_Witness ==
    /\ readout.op = "get_available_models"
    /\ readout.arg = "soft_edge"
    /\ readout.result = get_available_models(Machine, "soft_edge")
    /\ readout.result # <<>>
    /\ \E m \in ModelIds \ Range(readout.result) :
          Info[m].processor_type = "soft_edge" /\ models[m].status = LOADED
    /\ \E m \in ModelIds : models[m].status = ERROR
    /\ \E m \in ModelIds : models[m].status = NOT_FOUND

\* the four counters of the cache statistics
Counters == {"hits", "misses", "evictions", "total_loaded"}

\* C16: hits, misses, evictions and total_loaded never decrease and are
\* never reset, whatever is done (loads, evictions, process requests,
\* reads); get_registry_stats returns a copy of them as they are, changes
\* none of them, and the copy stays as it was returned.
C16_CountersOnlyGrow ==
    [][/\ \A c \in Counters : cache_stats'[c] >= cache_stats[c]
       /\ DOMAIN cache_stats' = Counters
       /\ ReadReturned("get_registry_stats")
          => /\ Seen(readout.result.cache_stats)' = cache_stats
             /\ cache_stats' = cache_stats
             /\ UNCHANGED <<models, model_cache>>
       /\ (readout.op = "get_registry_stats" /\ readout' = readout)
          => Seen(readout.result.cache_stats)' = Seen(readout.result.cache_stats)]_vars

\* statistics were read, and since then loads, hits and an eviction have
\* moved every counter while the copy kept the old values
C16_Witness ==
    /\ readout.op = "get_registry_stats"
    /\ nRequests > 0
    /\ \A c \in Counters : Seen(readout.result.cache_stats)[c] < cache_stats[c]
    /\ cache_stats.evictions >= 1


----------------------------------------------------------------------------
\* C17: for every input image of size (W, H), every backend and every
\* processor type, a pipeline that returns an image returns one of exactly
\* size (W, H).
C17_OutputHasInputSize ==
    render.model_id # None => render.out = render.size

----------------------------------------------------------------------------
\* Two calls for the same native model, made from two threads while the
\* model was AVAILABLE and not cached, the second while the first was in
\* progress; both have ended
TwoConcurrentLoadsEnded ==
    /\ \A t \in Threads : threads[t].pc = "done" /\ threads[t].fresh
    /\ \E t \in Threads : threads[t].overlap
    /\ threads[1].model_id = threads[2].model_id

\* C18: under every interleaving of two concurrent loads of the same
\* not-yet-loaded native model whose weights are present, both loads
\* return a handle, and once both have ended the cache holds exactly one
\* entry for the id and the status of its descriptor is LOADED.
C18_BothConcurrentLoadsReturn ==
    (PYTORCH_AVAILABLE /\ TwoConcurrentLoadsEnded)
        => /\ \A t \in Threads : threads[t].exc = None
           /\ Cardinality({i \in DOMAIN model_cache :
                              model_cache[i].id = threads[1].model_id}) = 1
           /\ models[threads[1].model_id].status = LOADED

\* the descriptors of the models load_model builds and caches
NativeIds == {m \in ModelIds : Info[m].backend \notin {BUILTIN, OPENCV}}

\* C19: with concurrent loads and evictions, in every state in which no
\* load is in progress a native descriptor has the status LOADED if and
\* only if its id is in the cache, and no descriptor has the status LOADING.
C19_StatusAgreesWithCacheAtRest ==
    Quiescent
        => \A m \in NativeIds :
              /\ (models[m].status = LOADED) <=> (m \in CachedIds(Machine))
              /\ models[m].status # LOADING

----------------------------------------------------------------------------
\* C20: when a load of a native model on a cache miss finishes (loads made
\* one after another), its descriptor is not LOADING; if the load returned,
\* the status is LOADED, the handle returned is the one stored in the cache
\* under the id and total_loaded grew by one; if building the model raised,
\* the status is ERROR with a message, the id is not in the cache, nothing
\* was evicted and total_loaded is unchanged.
C20_MissEndsLoadedOrError ==
    [][(/\ nLoads' = nLoads + 1
        /\ lastLoad'.model_id \in NativeIds
        /\ lastLoad'.model_id \notin CachedIds(Machine))
       => /\ models'[lastLoad'.model_id].status # LOADING
          /\ lastLoad'.exc = None
             => /\ models'[lastLoad'.model_id].status = LOADED
                /\ lastLoad'.model_id \in CachedIds(Machine)'
                /\ CacheGet(Machine, lastLoad.model_id)' = lastLoad'.handle
                /\ cache_stats'.total_loaded = cache_stats.total_loaded + 1
          /\ lastLoad'.msg = "Failed to load model"
             => /\ models'[lastLoad'.model_id].status = ERROR
                /\ models'[lastLoad'.model_id].error_message # None
                /\ lastLoad'.model_id \notin CachedIds(Machine)'
                /\ model_cache' = model_cache
                /\ cache_stats'.evictions = cache_stats.evictions
                /\ cache_stats'.total_loaded = cache_stats.total_loaded]_vars

\* a load failed while building the model, with the cache at its full size
C20_Witness ==
    /\ lastLoad.msg = "Failed to load model"
    /\ lastLoad.model_id \in KnownArchitecture
    /\ models[lastLoad.model_id].status = ERROR
    /\ Len(model_cache) = max_cache_size
    /\ cache_stats.total_loaded = max_cache_size

----------------------------------------------------------------------------
\* C21: a load of a builtin or cpu-vision descriptor counts a miss, marks
\* the descriptor LOADED and returns a sentinel naming its backend; it
\* inserts nothing into the cache and evicts nothing, so the cache and the
\* status of every other descriptor are unchanged.
C21_BuiltinLoadLeavesCache ==
    [][(/\ nLoads' = nLoads + 1
        /\ lastLoad'.model_id \in ModelIds
        /\ Info[lastLoad'.model_id].backend \in {BUILTIN, OPENCV})
       => /\ lastLoad'.exc = None
          /\ lastLoad'.handle.kind = "sentinel"
          /\ lastLoad'.handle.value = Info[lastLoad'.model_id].backend
          /\ cache_stats'.misses = cache_stats.misses + 1
          /\ models'[lastLoad'.model_id].status = LOADED
          /\ model_cache' = model_cache
          /\ cache_stats'.evictions = cache_stats.evictions
          /\ cache_stats'.total_loaded = cache_stats.total_loaded
          /\ \A o \in ModelIds \ {lastLoad'.model_id} :
                models'[o].status = models[o].status]_vars

\* a builtin or cpu-vision descriptor was loaded while the cache was full
C21_Witness ==
    /\ lastLoad.model_id \in {"builtin_depth", "opencv_canny"}
    /\ lastLoad.exc = None
    /\ lastLoad.handle.kind = "sentinel"
    /\ models[lastLoad.model_id].status = LOADED
    /\ Len(model_cache) = max_cache_size

----------------------------------------------------------------------------
\* C22: the status the prober gives a descriptor depends only on its backend
\* and on whether its weights file exists: AVAILABLE for builtin and
\* cpu-vision descriptors, for the others AVAILABLE if the file exists and
\* NOT_FOUND if not.  So directly after construction every status is
\* AVAILABLE or NOT_FOUND, and running the prober again on the same files
\* changes nothing.
C22_ProbeDependsOnBackendAndFile ==
    [][/\ models' = models
       /\ \A m \in ModelIds :
            /\ models'[m].status \in {AVAILABLE, NOT_FOUND}
            /\ models'[m].status =
                  IF Info[m].backend \in {BUILTIN, OPENCV} THEN AVAILABLE
                  ELSE IF Info[m].file_path \in disk THEN AVAILABLE
                  ELSE NOT_FOUND]_vars

\* the prober has run again on a registry with weights present for some
\* native models and missing for others
C22_Witness ==
    /\ readout.op = "_check_model_availability"
    /\ models["zoedepth"].status = AVAILABLE
    /\ models["midas_v21"].status = NOT_FOUND
    /\ models["normal_midas"].status = NOT_FOUND
    /\ models["builtin_depth"].status = AVAILABLE

----------------------------------------------------------------------------
\* C23: whenever a pipeline fails internally, whatever the backend and the
\* processor type, the dispatcher raises to the fallback executor: no
\* response reports success with an image that stands in for a pipeline
\* run that failed.
C23_FailedPipelineRaises ==
    (response.outcome = "response" /\ response.success) => ~dispatch.masked

----------------------------------------------------------------------------
\* C24: in every state reached by operations made one after another, every
\* id in the cache is the id of a descriptor that is neither builtin nor
\* cpu-vision and has the status LOADED, and every such descriptor with
\* the status LOADED has its id in the cache.
C24_CacheHoldsTheLoadedNatives ==
    /\ \A i \in DOMAIN model_cache :
          /\ model_cache[i].id \in NativeIds
          /\ models[model_cache[i].id].status = LOADED
    /\ \A m \in NativeIds : models[m].status = LOADED => m \in CachedIds(Machine)
    /\ \A i, j \in DOMAIN model_cache : model_cache[i].id = model_cache[j].id => i = j

\* the cache is full after an eviction, and a builtin descriptor is LOADED
\* without being cached
C24_Witness ==
    /\ Len(model_cache) = max_cache_size
    /\ cache_stats.evictions >= 1
    /\ models["builtin_depth"].status = LOADED

----------------------------------------------------------------------------
\* C25: ERROR is absorbing under load.  Once the status of a descriptor is
\* ERROR it stays ERROR, and every later load of the id fails before a
\* reload is attempted: nothing is built, the cache and every descriptor
\* are unchanged and of the counters only misses grows.
C25_ErrorIsAbsorbing ==
    [][\A m \in ModelIds :
          models[m].status = ERROR
          => /\ models'[m].status = ERROR
             /\ (nLoads' = nLoads + 1 /\ lastLoad'.model_id = m)
                => /\ lastLoad'.exc = "FileNotFoundError"
                   /\ models' = models
                   /\ model_cache' = model_cache
                   /\ heap' = heap
                   /\ cache_stats' = [cache_stats EXCEPT !.misses = @ + 1]]_vars

\* a model whose load had failed was asked for again and refused, after
\* other models had been loaded in between
C25_Witness ==
    /\ lastLoad.model_id \in KnownArchitecture
    /\ lastLoad.exc = "FileNotFoundError"
    /\ models[lastLoad.model_id].status = ERROR
    /\ model_cache # <<>>
    /\ cache_stats.misses >= 3

----------------------------------------------------------------------------
\* C26: a fallback candidate is attempted only while its status is exactly
\* AVAILABLE; a candidate whose model is LOADED is passed over.  So the
\* native candidate that produced the output of a request does not produce
\* the output of the same request sent again at once: the second response
\* comes from another model of the chain or from the primary, or is a failure.
C26_LoadedCandidateIsSkipped ==
    [][nRequests' = nRequests + 1
       => /\ \A i \in DOMAIN dispatch'.walk :
                /\ dispatch'.walk[i].attempted => dispatch'.walk[i].status = AVAILABLE
                /\ dispatch'.walk[i].status = LOADED => ~dispatch'.walk[i].attempted
          /\ (/\ request' = request
              /\ response.success
              /\ response.fallback_used
              /\ dispatch.producer \in KnownArchitecture)
             => dispatch'.producer # dispatch.producer]_vars

\* the second of two requests for manga_line: lineart_anime, which the
\* first request loaded, is passed over and the cpu-vision candidate answers
C26_Witness ==
    /\ nRequests = 2
    /\ request.model_id = "manga_line"
    /\ request.backend_preference = None
    /\ models["manga_line"].status = ERROR
    /\ response.success
    /\ response.fallback_used
    /\ response.backend_used = OPENCV
    /\ Len(dispatch.walk) = 2
    /\ dispatch.walk[1].id = "lineart_anime"
    /\ dispatch.walk[1].status = LOADED
    /\ ~dispatch.walk[1].attempted
    /\ dispatch.walk[2].attempted
----------------------------------------------------------------------------
\* C27: a process call makes at most 1 + len(chain) dispatch attempts, where
\* chain is the fallback chain of the requested descriptor, and returns.  The
\* candidates visited are the entries of that chain, in order and once each;
\* no entry of a candidate's own chain is visited.
C27_AttemptsBoundedByOwnChain ==
    nRequests > 0
    => /\ response.outcome \in {"response", "raised"}
       /\ IF request.model_id \in ModelIds
          THEN LET chain    == Info[request.model_id].fallback_models
                   attempts == (IF dispatch.primary.backend # None THEN 1 ELSE 0)
                               + Cardinality({i \in DOMAIN dispatch.walk :
                                                 dispatch.walk[i].attempted})
               IN  /\ Len(dispatch.walk) <= Len(chain)
                   /\ \A i \in DOMAIN dispatch.walk : dispatch.walk[i].id = chain[i]
                   /\ attempts <= 1 + Len(chain)
          ELSE dispatch.primary.backend = None /\ dispatch.walk = <<>>

\* a request whose primary attempt and whose three candidates all failed:
\* four attempts, the first candidate having a chain of its own
C27_Witness ==
    /\ nRequests > 0
    /\ request.model_id \in ModelIds
    /\ Len(Info[request.model_id].fallback_models) = MaxChain
    /\ dispatch.primary.exc # None
    /\ Len(dispatch.walk) = MaxChain
    /\ \A i \in DOMAIN dispatch.walk :
          /\ dispatch.walk[i].attempted
          /\ dispatch.walk[i].exc # None
    /\ Info[dispatch.walk[1].id].fallback_models # <<>>
    /\ response.outcome = "response"
    /\ ~response.success
    /\ response.error = ALL_FALLBACKS_FAILED
----------------------------------------------------------------------------
\* C28: when load_model calls are made one after another, the counters of
\* the registry agree with the cache and with the calls made: evictions is
\* total_loaded minus the number of cached models, total_loaded is at most
\* misses, and hits + misses is the number of calls with a known id.
C28_CountersAgree ==
    /\ cache_stats.evictions = cache_stats.total_loaded - Len(model_cache)
    /\ cache_stats.total_loaded <= cache_stats.misses
    /\ cache_stats.hits + cache_stats.misses = knownLoads

\* six models were cached, one of them was evicted, and one call was a hit
C28_Witness ==
    /\ cache_stats.evictions >= 1
    /\ cache_stats.hits >= 1
    /\ Len(model_cache) = max_cache_size
    /\ cache_stats.total_loaded = max_cache_size + 1
    /\ knownLoads = cache_stats.total_loaded + 1
----------------------------------------------------------------------------
\* C29: while two threads load two different native models, statement by
\* statement, the cache never holds more than max_cache_size models, and no
\* load ends with its descriptor in ERROR because the key it meant to evict
\* had been removed by the other thread.
C29_CacheWithinSizeUnderInterleaving ==
    (threads[1].model_id # threads[2].model_id)
        => /\ Len(model_cache) <= max_cache_size
           /\ \A t \in Threads :
                 (threads[t].pc = "done" /\ threads[t].model_id # None)
                     => ~(/\ models[threads[t].model_id].status = ERROR
                          /\ models[threads[t].model_id].error_message = "KeyError")
----------------------------------------------------------------------------
\* C30: every response names the requested model as model_used, also when
\* the output came from another model of the fallback chain (fallback_used
\* = true); and the response built after every candidate of the chain was
\* passed over or failed has fallback_used = false and names the backend of
\* the primary attempt as backend_used.
C30_ResponseNamesTheRequest ==
    (nRequests > 0 /\ response.outcome = "response")
        => /\ response.model_used = request.model_id
           /\ (response.fallback_used /\ response.success)
                 => /\ dispatch.producer # request.model_id
                    /\ response.backend_used = Info[dispatch.producer].backend
           /\ (dispatch.walked /\ response.error = ALL_FALLBACKS_FAILED)
                 => /\ ~response.success
                    /\ ~response.fallback_used
                    /\ response.backend_used = dispatch.primary.backend
                    /\ response.backend_used = PreferredBackend(request)

\* every candidate of a chain of three was tried with a backend of its own
\* and failed: the response names the backend of the primary attempt
C30_Witness ==
    /\ nRequests > 0
    /\ response.outcome = "response"
    /\ response.error = ALL_FALLBACKS_FAILED
    /\ dispatch.walked
    /\ Len(dispatch.walk) = MaxChain
    /\ dispatch.walk[MaxChain].attempted
    /\ dispatch.walk[MaxChain].backend # dispatch.primary.backend
    /\ response.backend_used = dispatch.primary.backend
    /\ ~response.fallback_used
    /\ response.model_used = request.model_id
=============================================================================
